---- MODULE Spec2Model ----
(***************************************************************************)
(* Model of src/main.py: the guardrails of the study assistant             *)
(* (sanitize_input, is_study_related) and the per-message handler          *)
(* handle_message.  A Python str is a sequence of one-character strings.   *)
(***************************************************************************)
EXTENDS Integers, Sequences, FiniteSets, TLC

VARIABLES pc, raw, sanitized, related, clsArg, calls, result, exc, sent,
          steps, escaped, phase, arg, san1, san2, cls, cls2

vars == <<pc, raw, sanitized, related, clsArg, calls, result, exc, sent,
          steps, escaped, phase, arg, san1, san2, cls, cls2>>

handlerVars == <<pc, raw, sanitized, related, clsArg, calls, result, exc,
                 sent, steps, escaped>>

pureVars == <<phase, arg, san1, san2, cls, cls2>>

----------------------------------------------------------------------------
(* Bounds of the model *)

\* most tokens concatenated into one argument of the pure functions
MaxTokens == 4
\* most tokens concatenated into one inbound message
MaxParts == 3
\* most tokens concatenated into one output of the completion service
MaxOutParts == 2

----------------------------------------------------------------------------
(* Program constants *)

MAX_INPUT_LENGTH == 1000

S_math == <<"m", "a", "t", "h">>
S_science == <<"s", "c", "i", "e", "n", "c", "e">>
S_history == <<"h", "i", "s", "t", "o", "r", "y">>
S_literature == <<"l", "i", "t", "e", "r", "a", "t", "u", "r", "e">>
S_biology == <<"b", "i", "o", "l", "o", "g", "y">>
S_calculus == <<"c", "a", "l", "c", "u", "l", "u", "s">>
S_physics == <<"p", "h", "y", "s", "i", "c", "s">>
S_chemistry == <<"c", "h", "e", "m", "i", "s", "t", "r", "y">>
S_study == <<"s", "t", "u", "d", "y">>
S_exam == <<"e", "x", "a", "m">>
S_error == <<"e", "r", "r", "o", "r">>

ALLOWED_SUBJECTS ==
  <<S_math, S_science, S_history, S_literature, S_biology, S_calculus,
    S_physics, S_chemistry>>

----------------------------------------------------------------------------
(* str and re primitives *)

UpperLetters ==
  <<"A", "B", "C", "D", "E", "F", "G", "H", "I", "J", "K", "L", "M",
    "N", "O", "P", "Q", "R", "S", "T", "U", "V", "W", "X", "Y", "Z">>

LowerLetters ==
  <<"a", "b", "c", "d", "e", "f", "g", "h", "i", "j", "k", "l", "m",
    "n", "o", "p", "q", "r", "s", "t", "u", "v", "w", "x", "y", "z">>

\* the characters the pattern \s matches and str.strip() strips
Whitespace == {" ", "\t", "\n", "\r"}

LowerChar(c) ==
  IF \E i \in 1..26 : UpperLetters[i] = c
    THEN LowerLetters[CHOOSE i \in 1..26 : UpperLetters[i] = c]
    ELSE c

UpperChar(c) ==
  IF \E i \in 1..26 : LowerLetters[i] = c
    THEN UpperLetters[CHOOSE i \in 1..26 : LowerLetters[i] = c]
    ELSE c

\* str.lower()
lower(s) == [i \in 1..Len(s) |-> LowerChar(s[i])]

\* str.upper()
upper(s) == [i \in 1..Len(s) |-> UpperChar(s[i])]

\* the operator `in` on two str values: k occurs in s as a substring
Contains(s, k) ==
  \E i \in 0..(Len(s) - Len(k)) : SubSeq(s, i + 1, i + Len(k)) = k

\* least element of a non-empty set of positions
First(S) == CHOOSE m \in S : \A n \in S : m <= n

\* Where a match of <[^>]+> that starts at position i ends, 0 if none starts
\* there: s[i] is "<", the next ">" after i exists and is not at i+1.
TagEnd(s, i) ==
  IF s[i] # "<" THEN 0
  ELSE LET gts == {j \in (i + 1)..Len(s) : s[j] = ">"}
       IN IF gts = {} THEN 0
          ELSE IF First(gts) >= i + 2 THEN First(gts) ELSE 0

\* re.sub(r'<[^>]+>', '', s) from position i on: the leftmost match at or
\* after i is found, the text before it is copied, the match is replaced by
\* the empty string and the scan resumes after it.
RECURSIVE SubTags(_, _)
SubTags(s, i) ==
  LET starts == {p \in i..Len(s) : TagEnd(s, p) # 0}
  IN IF starts = {} THEN SubSeq(s, i, Len(s))
     ELSE SubSeq(s, i, First(starts) - 1)
            \o SubTags(s, TagEnd(s, First(starts)) + 1)

\* end of the maximal run of whitespace that starts at position p
RunEnd(s, p) ==
  p + Cardinality({q \in p..Len(s) : \A j \in p..q : s[j] \in Whitespace}) - 1

\* re.sub(r'\s+', ' ', s) from position i on
RECURSIVE SubSpaces(_, _)
SubSpaces(s, i) ==
  LET starts == {p \in i..Len(s) : s[p] \in Whitespace}
  IN IF starts = {} THEN SubSeq(s, i, Len(s))
     ELSE SubSeq(s, i, First(starts) - 1) \o <<" ">>
            \o SubSpaces(s, RunEnd(s, First(starts)) + 1)

\* str.strip(): the leading and the trailing whitespace are dropped
strip(s) ==
  LET n == Len(s)
      lead == Cardinality({i \in 1..n : \A j \in 1..i : s[j] \in Whitespace})
      trail == Cardinality({i \in 1..n :
                              \A j \in 1..i : s[n + 1 - j] \in Whitespace})
  IN IF lead = n THEN <<>> ELSE SubSeq(s, lead + 1, n - trail)

----------------------------------------------------------------------------
(* The guardrail functions *)

\* sanitize_input with the two substitutions in the other order
sanitize_input_spaces_first(text) == SubTags(strip(SubSpaces(text, 1)), 1)

\* sanitize_input without the strip()
sanitize_input_no_strip(text) == SubSpaces(SubTags(text, 1), 1)

\* text = re.sub(r'<[^>]+>', '', text); text = re.sub(r'\s+', ' ', text).strip()
\* (each value text takes is bound once, then used)
sanitize_input(text) ==
  CHOOSE stripped \in
    {strip(spaced) : spaced \in
       {SubSpaces(no_tags, 1) : no_tags \in {SubTags(text, 1)}}} : TRUE

\* is_study_related without the lower()
is_study_related_case_sensitive(query) ==
  \/ \E n \in 1..Len(ALLOWED_SUBJECTS) : Contains(query, ALLOWED_SUBJECTS[n])
  \/ Contains(query, S_study)
  \/ Contains(query, S_exam)

\* is_study_related with the operands of `in` exchanged
is_study_related_reversed(query) ==
  \E query_lower \in {lower(query)} :
    \/ \E n \in 1..Len(ALLOWED_SUBJECTS) :
         Contains(ALLOWED_SUBJECTS[n], query_lower)
    \/ Contains(S_study, query_lower)
    \/ Contains(S_exam, query_lower)

\* query_lower = query.lower(), bound once, then searched
is_study_related(query) ==
  \E query_lower \in {lower(query)} :
    \/ \E n \in 1..Len(ALLOWED_SUBJECTS) :
         Contains(query_lower, ALLOWED_SUBJECTS[n])
    \/ Contains(query_lower, S_study)
    \/ Contains(query_lower, S_exam)

----------------------------------------------------------------------------
(* Bounded sets of str values *)

\* every concatenation of at most n members of toks
RECURSIVE Strings(_, _)
Strings(toks, n) ==
  IF n = 0 THEN {<<>>}
  ELSE LET shorter == Strings(toks, n - 1)
       IN shorter \cup {p \o t : p \in shorter, t \in toks}

\* n ordinary characters
Pad(n) == [i \in 1..n |-> "x"]

PureTokens ==
  {<<"<">>, <<">">>, <<" ">>, <<"\t">>, <<"a">>, <<"<", "b", ">">>, S_math,
   <<"E", "x", "a", "m">>}

\* each keyword of the classifier in three letter cases, and without its last
\* character, alone and inside other text
Keywords ==
  {ALLOWED_SUBJECTS[n] : n \in 1..Len(ALLOWED_SUBJECTS)} \cup {S_study, S_exam}

KeywordInputs ==
  LET forms == UNION {{k, upper(k), <<UpperChar(k[1])>> \o SubSeq(k, 2, Len(k)),
                       SubSeq(k, 1, Len(k) - 1)} : k \in Keywords}
  IN UNION {{f, <<"a", " ">> \o f \o <<"s">>, <<"<">> \o f \o <<">">>}
              : f \in forms}

PureInputs == Strings(PureTokens, MaxTokens) \cup KeywordInputs

MessageTokens ==
  {<<"<">>, <<">">>, <<" ">>, <<"x">>, S_math, <<"E", "x", "a", "m">>}

\* inbound texts at and just above the maximum input length
LongInputs ==
  {p \o Pad(MAX_INPUT_LENGTH - Len(p) + d) :
     p \in {S_math, <<"<", "b", ">">> \o S_math, <<" ">> \o S_exam, <<"x">>},
     d \in {0, 1}}

MessageInputs == Strings(MessageTokens, MaxParts) \cup LongInputs

OutputTokens == {S_error, <<"E", "r", "r">>, <<"o", "r">>, <<"o", "k">>}

\* what the completion service may return as final_output
Outputs == Strings(OutputTokens, MaxOutParts)

\* the handlers of the try statement, by the class of the exception
ExcKinds == {"ValueError", "RuntimeError", "Exception"}

\* str(e) of a raised exception
ExcTexts == {<<>>, <<"b", "o", "o", "m">>, S_error}

----------------------------------------------------------------------------
(* Messages sent to the chat surface: a template and what is formatted in *)

MSG_GREETING == [tmpl |-> "welcome", arg |-> <<>>]
MSG_EMPTY == [tmpl |-> "please_provide", arg |-> <<>>]
MSG_TOO_LONG == [tmpl |-> "input_too_long", arg |-> <<>>]
MSG_REDIRECT == [tmpl |-> "only_study_topics", arg |-> <<>>]
MSG_FILTERED == [tmpl |-> "could_not_process", arg |-> <<>>]
MSG_UNEXPECTED == [tmpl |-> "unexpected_error", arg |-> <<>>]
MsgInvalidInput(text) == [tmpl |-> "invalid_input", arg |-> text]
MsgProcessingError(text) == [tmpl |-> "processing_error", arg |-> text]
MsgVerbatim(text) == [tmpl |-> "verbatim", arg |-> text]

NoResult == [returned |-> FALSE, final_output |-> <<>>]
NoExc == [kind |-> "none", text |-> <<>>]

----------------------------------------------------------------------------
(* The pure functions applied to bounded arguments *)

PureIdle ==
  /\ phase = "off"
  /\ arg = <<>>
  /\ san1 = <<>>
  /\ san2 = <<>>
  /\ cls = FALSE
  /\ cls2 = FALSE

HandlerIdle ==
  /\ pc = "Idle"
  /\ raw = <<>>
  /\ sanitized = <<>>
  /\ related = FALSE
  /\ clsArg = <<>>
  /\ calls = <<>>
  /\ result = NoResult
  /\ exc = NoExc
  /\ sent = <<>>
  /\ steps = <<>>
  /\ escaped = FALSE

PureInit ==
  /\ HandlerIdle
  /\ phase = "arg"
  /\ arg \in PureInputs
  /\ san1 = <<>>
  /\ san2 = <<>>
  /\ cls = FALSE
  /\ cls2 = FALSE

ApplySanitize ==
  /\ phase = "arg"
  /\ san1' = sanitize_input(arg)
  /\ phase' = "sanitized"
  /\ UNCHANGED <<arg, san2, cls, cls2>>
  /\ UNCHANGED handlerVars

ApplySanitizeAgain ==
  /\ phase = "sanitized"
  /\ san2' = sanitize_input(san1)
  /\ phase' = "resanitized"
  /\ UNCHANGED <<arg, san1, cls, cls2>>
  /\ UNCHANGED handlerVars

ApplyClassify ==
  /\ phase = "resanitized"
  /\ cls' = is_study_related(arg)
  /\ phase' = "classified"
  /\ UNCHANGED <<arg, san1, san2, cls2>>
  /\ UNCHANGED handlerVars

ApplyClassifyAgain ==
  /\ phase = "classified"
  /\ cls2' = is_study_related(arg)
  /\ phase' = "reclassified"
  /\ UNCHANGED <<arg, san1, san2, cls>>
  /\ UNCHANGED handlerVars

PureNext ==
  \/ ApplySanitize
  \/ ApplySanitizeAgain
  \/ ApplyClassify
  \/ ApplyClassifyAgain

PureSpec == PureInit /\ [][PureNext]_vars

----------------------------------------------------------------------------
(* The chat handlers.  pc is the handler's position; Idle: no turn runs. *)

Init ==
  /\ PureIdle
  /\ pc = "Start"
  /\ raw = <<>>
  /\ sanitized = <<>>
  /\ related = FALSE
  /\ clsArg = <<>>
  /\ calls = <<>>
  /\ result = NoResult
  /\ exc = NoExc
  /\ sent = <<>>
  /\ steps = <<>>
  /\ escaped = FALSE

\* cl.Message(content=...).send() followed by the end of the handler
SendAndReturn(msg, done) ==
  /\ sent' = Append(sent, msg)
  /\ steps' = steps \o done \o <<"display">>
  /\ pc' = "Returning"

on_chat_start ==
  /\ pc = "Start"
  /\ sent' = Append(sent, MSG_GREETING)
  /\ pc' = "Returning"
  /\ UNCHANGED <<raw, sanitized, related, clsArg, calls, result, exc, steps,
                 escaped>>
  /\ UNCHANGED pureVars

\* the chat surface delivers an inbound message: handle_message starts
Receive(text) ==
  /\ pc = "Idle"
  /\ raw' = text
  /\ pc' = "Validating"
  /\ UNCHANGED <<sanitized, related, clsArg, calls, result, exc, sent, steps,
                 escaped>>
  /\ UNCHANGED pureVars

IsEmpty(content) == Len(content) = 0

\* TooLong with >= for >
TooLongOffByOne(content) == Len(content) >= MAX_INPUT_LENGTH

TooLong(content) == Len(content) > MAX_INPUT_LENGTH

\* Validate with the send of the length-error message left out
ValidateSilent ==
  /\ pc = "Validating"
  /\ IF IsEmpty(raw)
       THEN SendAndReturn(MSG_EMPTY, <<"validate">>)
       ELSE IF TooLong(raw)
         THEN /\ pc' = "Returning"
              /\ steps' = Append(steps, "validate")
              /\ UNCHANGED sent
         ELSE /\ pc' = "Sanitizing"
              /\ steps' = Append(steps, "validate")
              /\ UNCHANGED sent
  /\ UNCHANGED <<raw, sanitized, related, clsArg, calls, result, exc, escaped>>
  /\ UNCHANGED pureVars

Validate ==
  /\ pc = "Validating"
  /\ IF IsEmpty(raw)
       THEN SendAndReturn(MSG_EMPTY, <<"validate">>)
       ELSE IF TooLong(raw)
         THEN SendAndReturn(MSG_TOO_LONG, <<"validate">>)
         ELSE /\ pc' = "Sanitizing"
              /\ steps' = Append(steps, "validate")
              /\ UNCHANGED sent
  /\ UNCHANGED <<raw, sanitized, related, clsArg, calls, result, exc, escaped>>
  /\ UNCHANGED pureVars

Sanitize ==
  /\ pc = "Sanitizing"
  /\ sanitized' = sanitize_input(raw)
  /\ steps' = Append(steps, "sanitize")
  /\ pc' = "Classifying"
  /\ UNCHANGED <<raw, related, clsArg, calls, result, exc, sent, escaped>>
  /\ UNCHANGED pureVars

\* Classify with the return after the redirect message left out
ClassifyNoReturn ==
  /\ pc = "Classifying"
  /\ clsArg' = sanitized
  /\ related' = is_study_related(sanitized)
  /\ pc' = "Routing"
  /\ steps' = Append(steps, "classify")
  /\ sent' = IF ~is_study_related(sanitized)
               THEN Append(sent, MSG_REDIRECT) ELSE sent
  /\ UNCHANGED <<raw, sanitized, calls, result, exc, escaped>>
  /\ UNCHANGED pureVars

Classify ==
  /\ pc = "Classifying"
  /\ clsArg' = sanitized
  /\ related' = is_study_related(sanitized)
  /\ IF ~is_study_related(sanitized)
       THEN SendAndReturn(MSG_REDIRECT, <<"classify">>)
       ELSE /\ pc' = "Routing"
            /\ steps' = Append(steps, "classify")
            /\ UNCHANGED sent
  /\ UNCHANGED <<raw, sanitized, calls, result, exc, escaped>>
  /\ UNCHANGED pureVars

\* RunnerRun with input=message.content
RunnerRunRaw ==
  /\ pc = "Routing"
  /\ calls' = Append(calls, raw)
  /\ steps' = Append(steps, "route")
  /\ pc' = "Awaiting"
  /\ UNCHANGED <<raw, sanitized, related, clsArg, result, exc, sent, escaped>>
  /\ UNCHANGED pureVars

\* Runner.run(starting_agent=study_assistant, input=sanitized_input) is
\* called and awaited
RunnerRun ==
  /\ pc = "Routing"
  /\ calls' = Append(calls, sanitized)
  /\ steps' = Append(steps, "route")
  /\ pc' = "Awaiting"
  /\ UNCHANGED <<raw, sanitized, related, clsArg, result, exc, sent, escaped>>
  /\ UNCHANGED pureVars

\* the completion service returns a result
LLMReturn(out) ==
  /\ pc = "Awaiting"
  /\ result' = [returned |-> TRUE, final_output |-> out]
  /\ pc' = "Filtering"
  /\ UNCHANGED <<raw, sanitized, related, clsArg, calls, exc, sent, steps,
                 escaped>>
  /\ UNCHANGED pureVars

\* the completion service raises
LLMRaise(kind, text) ==
  /\ pc = "Awaiting"
  /\ exc' = [kind |-> kind, text |-> text]
  /\ pc' = "Handling"
  /\ UNCHANGED <<raw, sanitized, related, clsArg, calls, result, sent, steps,
                 escaped>>
  /\ UNCHANGED pureVars

\* Rejected without the lower()
RejectedCaseSensitive(final_output) ==
  \/ Len(final_output) = 0
  \/ Contains(final_output, S_error)

\* not result.final_output or "error" in result.final_output.lower()
Rejected(final_output) ==
  \/ Len(final_output) = 0
  \/ Contains(lower(final_output), S_error)

FilterResponse ==
  /\ pc = "Filtering"
  /\ IF Rejected(result.final_output)
       THEN SendAndReturn(MSG_FILTERED, <<>>)
       ELSE /\ pc' = "Displaying"
            /\ UNCHANGED <<sent, steps>>
  /\ UNCHANGED <<raw, sanitized, related, clsArg, calls, result, exc, escaped>>
  /\ UNCHANGED pureVars

Display ==
  /\ pc = "Displaying"
  /\ SendAndReturn(MsgVerbatim(result.final_output), <<>>)
  /\ UNCHANGED <<raw, sanitized, related, clsArg, calls, result, exc, escaped>>
  /\ UNCHANGED pureVars

\* HandleException without the except RuntimeError clause
HandleExceptionNoRuntimeError ==
  /\ pc = "Handling"
  /\ IF exc.kind = "ValueError"
       THEN SendAndReturn(MsgInvalidInput(exc.text), <<>>) /\ UNCHANGED escaped
       ELSE IF exc.kind \in {"RuntimeError", "Exception"}
         THEN SendAndReturn(MSG_UNEXPECTED, <<>>) /\ UNCHANGED escaped
         ELSE /\ escaped' = TRUE
              /\ pc' = "Returning"
              /\ UNCHANGED <<sent, steps>>
  /\ UNCHANGED <<raw, sanitized, related, clsArg, calls, result, exc>>
  /\ UNCHANGED pureVars

\* the except clauses in their order; an exception no clause names leaves the
\* handler
HandleException ==
  /\ pc = "Handling"
  /\ IF exc.kind = "ValueError"
       THEN SendAndReturn(MsgInvalidInput(exc.text), <<>>) /\ UNCHANGED escaped
       ELSE IF exc.kind = "RuntimeError"
         THEN SendAndReturn(MsgProcessingError(exc.text), <<>>)
              /\ UNCHANGED escaped
         ELSE IF exc.kind = "Exception"
           THEN SendAndReturn(MSG_UNEXPECTED, <<>>) /\ UNCHANGED escaped
           ELSE /\ escaped' = TRUE
                /\ pc' = "Returning"
                /\ UNCHANGED <<sent, steps>>
  /\ UNCHANGED <<raw, sanitized, related, clsArg, calls, result, exc>>
  /\ UNCHANGED pureVars

\* the handler is left: its locals are dropped, nothing is kept for the next
\* turn
Return ==
  /\ pc = "Returning"
  /\ pc' = "Idle"
  /\ raw' = <<>>
  /\ sanitized' = <<>>
  /\ related' = FALSE
  /\ clsArg' = <<>>
  /\ calls' = <<>>
  /\ result' = NoResult
  /\ exc' = NoExc
  /\ sent' = <<>>
  /\ steps' = <<>>
  /\ escaped' = FALSE
  /\ UNCHANGED pureVars

Next ==
  \/ on_chat_start
  \/ \E text \in MessageInputs : Receive(text)
  \/ Validate
  \/ Sanitize
  \/ Classify
  \/ RunnerRun
  \/ \E out \in Outputs : LLMReturn(out)
  \/ \E kind \in ExcKinds, text \in ExcTexts : LLMRaise(kind, text)
  \/ FilterResponse
  \/ Display
  \/ HandleException
  \/ Return

Spec == Init /\ [][Next]_vars

\* every started step of a handler runs on, and the awaited call to the
\* completion service ends: it returns or it raises
Progress ==
  \/ on_chat_start
  \/ Validate
  \/ Sanitize
  \/ Classify
  \/ RunnerRun
  \/ \E out \in Outputs : LLMReturn(out)
  \/ \E kind \in ExcKinds, text \in ExcTexts : LLMRaise(kind, text)
  \/ FilterResponse
  \/ Display
  \/ HandleException
  \/ Return

FairSpec == Spec /\ WF_vars(Progress)

----------------------------------------------------------------------------
(* Properties *)

Range(seq) == {seq[i] : i \in 1..Len(seq)}

\* a turn of handle_message has reached its end
TurnOver == pc = "Returning" /\ steps # <<>>

\* C1: the completion service is invoked, and Routing entered, only if
\* is_study_related(sanitize_input(text)) is true; when the classifier returns
\* false the turn displays the fixed redirect text and never routes.
C1_RoutingGated ==
  /\ (pc \in {"Routing", "Awaiting", "Filtering", "Displaying", "Handling"}
        \/ calls # <<>> \/ "route" \in Range(steps))
       => is_study_related(sanitize_input(raw))
  /\ ("classify" \in Range(steps) /\ ~is_study_related(sanitize_input(raw)))
       => /\ pc = "Returning"
          /\ sent = <<MSG_REDIRECT>>
          /\ calls = <<>>
          /\ "route" \notin Range(steps)

C1_Witness ==
  /\ pc = "Returning"
  /\ "classify" \in Range(steps)
  /\ ~related
  /\ Len(sanitized) > 0
  /\ sent = <<MSG_REDIRECT>>

\* C2: a text of length 0 is rejected with the empty-input message, a text
\* longer than 1000 with the length-error message, in both cases without
\* sanitizer, classifier or completion call; a text of length 1..1000 is never
\* rejected by validation.
C2_Validation ==
  "validate" \in Range(steps) =>
    /\ Len(raw) = 0 =>
         /\ sent = <<MSG_EMPTY>>
         /\ steps = <<"validate", "display">>
         /\ calls = <<>>
    /\ Len(raw) > 1000 =>
         /\ sent = <<MSG_TOO_LONG>>
         /\ steps = <<"validate", "display">>
         /\ calls = <<>>
    /\ (Len(raw) >= 1 /\ Len(raw) <= 1000) =>
         /\ MSG_EMPTY \notin Range(sent)
         /\ MSG_TOO_LONG \notin Range(sent)
         /\ (pc = "Sanitizing" \/ "sanitize" \in Range(steps))

C2_Witness ==
  /\ pc = "Returning"
  /\ Len(raw) = 1001
  /\ sent = <<MSG_TOO_LONG>>
  /\ steps = <<"validate", "display">>

\* C3 as stated: when the completion service raises, the message displayed is
\* the one fixed generic failure text whatever the failure's kind and text,
\* and no exception escapes the turn.
C3_Original ==
  (pc = "Returning" /\ exc.kind # "none")
    => sent = <<MSG_UNEXPECTED>> /\ ~escaped

\* C3 amended: when the completion service raises, exactly one message is
\* displayed and no exception escapes the turn; the message is the invalid-input
\* text carrying the failure's text for a ValueError, the processing-error text
\* carrying the failure's text for a RuntimeError, and the fixed
\* unexpected-error text for any other Exception.
C3_FailureMessage ==
  (pc = "Returning" /\ exc.kind # "none") =>
    /\ ~escaped
    /\ Len(sent) = 1
    /\ exc.kind = "ValueError" => sent[1] = MsgInvalidInput(exc.text)
    /\ exc.kind = "RuntimeError" => sent[1] = MsgProcessingError(exc.text)
    /\ exc.kind \notin {"ValueError", "RuntimeError"}
         => sent[1] = MSG_UNEXPECTED

C3_Witness ==
  /\ pc = "Returning"
  /\ exc.kind = "RuntimeError"
  /\ exc.text # <<>>
  /\ sent = <<MsgProcessingError(exc.text)>>

\* C4 as stated: after a successful call the output is displayed verbatim
\* exactly when it is non-empty and does not contain the literal word "error";
\* otherwise the generic failure message is displayed instead.
C4_Original ==
  (pc = "Returning" /\ result.returned) =>
    IF Len(result.final_output) > 0 /\ ~Contains(result.final_output, S_error)
      THEN sent = <<MsgVerbatim(result.final_output)>>
      ELSE sent = <<MSG_FILTERED>>

\* C4 amended: after a successful call the output is displayed verbatim exactly
\* when it is non-empty and does not contain "error" in any letter case (its
\* lowercased form does not contain "error"); otherwise the generic failure
\* message is displayed instead and the output is not displayed.
C4_OutputFilter ==
  (pc = "Returning" /\ result.returned) =>
    IF /\ Len(result.final_output) > 0
       /\ ~\E i \in 0..(Len(result.final_output) - 5) :
             \A j \in 1..5 : LowerChar(result.final_output[i + j]) = S_error[j]
      THEN sent = <<MsgVerbatim(result.final_output)>>
      ELSE sent = <<MSG_FILTERED>>

C4_Witness ==
  /\ pc = "Returning"
  /\ result.returned
  /\ ~Contains(result.final_output, S_error)
  /\ Contains(lower(result.final_output), S_error)
  /\ sent = <<MSG_FILTERED>>

\* C5: every turn eventually returns to Idle, whatever the input and the
\* outcome of the completion call; every turn that ends has displayed a
\* message, and the completion service is invoked at most once in a turn.
C5_TurnsEnd ==
  /\ [](TurnOver => Len(sent) >= 1)
  /\ [](Len(calls) <= 1)
  /\ (pc # "Idle") ~> (pc = "Idle")

C5_Witness ==
  /\ TurnOver
  /\ exc.kind = "Exception"
  /\ Len(calls) = 1
  /\ Len(sent) = 1

\* C6: sanitize_input is idempotent:
\* sanitize_input(sanitize_input(x)) = sanitize_input(x).
C6_Idempotent ==
  phase \in {"resanitized", "classified", "reclassified"} => san2 = san1

C6_Witness ==
  /\ phase = "resanitized"
  /\ san1 # arg
  /\ "<" \in Range(san1)
  /\ " " \in Range(san1)
  /\ san2 = san1

\* some part of s has the markup-tag shape: "<", one or more characters that
\* are not ">", ">"
HasTag(s) ==
  \E i \in 1..Len(s), j \in 1..Len(s) :
    /\ j >= i + 2
    /\ s[i] = "<"
    /\ s[j] = ">"
    /\ \A k \in (i + 1)..(j - 1) : s[k] # ">"

\* C7: the result of sanitize_input contains no markup-tag-shaped substring,
\* no two adjacent whitespace characters, no whitespace other than the space,
\* no leading or trailing whitespace, and is empty when the input is empty.
C7_SanitizedShape ==
  phase # "arg" =>
    /\ ~HasTag(san1)
    /\ \A i \in 1..(Len(san1) - 1) :
         ~(san1[i] \in Whitespace /\ san1[i + 1] \in Whitespace)
    /\ \A i \in 1..Len(san1) : san1[i] \in Whitespace => san1[i] = " "
    /\ Len(san1) > 0 =>
         san1[1] \notin Whitespace /\ san1[Len(san1)] \notin Whitespace
    /\ arg = <<>> => san1 = <<>>

C7_Witness ==
  /\ phase = "sanitized"
  /\ HasTag(arg)
  /\ arg[1] \in Whitespace
  /\ "\t" \in Range(arg)
  /\ Len(san1) > 0

\* the keywords C8 lists
C8_Keywords ==
  {S_math, S_science, S_history, S_literature, S_biology, S_calculus,
   S_physics, S_chemistry, S_study, S_exam}

\* some keyword of C8 occurs in q, letter case disregarded
C8_Mentions(q) ==
  \E k \in C8_Keywords : \E i \in 0..(Len(q) - Len(k)) :
    \A j \in 1..Len(k) : LowerChar(q[i + j]) = k[j]

\* C8: is_study_related(q) is true iff the lowercased q contains one of the 8
\* subject keywords or "study" or "exam"; the result does not depend on the
\* letter case of q, and a second call gives the same result.
C8_Classifier ==
  /\ phase \in {"classified", "reclassified"} =>
       /\ cls = C8_Mentions(arg)
       /\ cls = is_study_related(upper(arg))
       /\ cls = is_study_related(lower(arg))
  /\ phase = "reclassified" => cls2 = cls

C8_Witness ==
  /\ phase = "reclassified"
  /\ cls
  /\ arg # lower(arg)
  /\ ~is_study_related_case_sensitive(arg)

StepRank(step) ==
  CASE step = "validate" -> 1
    [] step = "sanitize" -> 2
    [] step = "classify" -> 3
    [] step = "route" -> 4
    [] step = "display" -> 5

\* C9: the steps of a turn occur in the order validate, sanitize, classify,
\* route, display; the length check is applied to the raw text before
\* sanitization; the classifier and the completion call receive
\* sanitize_input(raw text).
C9_StepOrder ==
  /\ \A i \in 1..Len(steps), j \in 1..Len(steps) :
       i < j => StepRank(steps[i]) < StepRank(steps[j])
  /\ ("validate" \in Range(steps) /\ Len(raw) > 1000) =>
       sent = <<MSG_TOO_LONG>> /\ "sanitize" \notin Range(steps)
  /\ "classify" \in Range(steps) => clsArg = sanitize_input(raw)
  /\ \A i \in 1..Len(calls) : calls[i] = sanitize_input(raw)

C9_Witness ==
  /\ pc = "Returning"
  /\ Len(raw) > 1000
  /\ Len(sanitize_input(raw)) <= 1000
  /\ is_study_related(sanitize_input(raw))
  /\ sent = <<MSG_TOO_LONG>>

\* C10: the completion service is never called with empty text; a non-empty
\* inbound text that passes validation and whose sanitized form is empty is
\* rejected with the redirect message and Routing is not entered.
C10_NoEmptyCall ==
  /\ \A i \in 1..Len(calls) : Len(calls[i]) > 0
  /\ pc \in {"Routing", "Awaiting"} => Len(sanitized) > 0
  /\ (TurnOver /\ Len(raw) >= 1 /\ Len(raw) <= 1000
        /\ sanitize_input(raw) = <<>>)
       => /\ sent = <<MSG_REDIRECT>>
          /\ "route" \notin Range(steps)
          /\ calls = <<>>

C10_Witness ==
  /\ pc = "Returning"
  /\ raw = <<"<">> \o S_math \o <<">">>
  /\ sanitized = <<>>
  /\ sent = <<MSG_REDIRECT>>
  /\ calls = <<>>

====
